---- MODULE Spec2Model ----
(***************************************************************************)
(* A model of package hit (src/hit.go): the declarative HTTP assertion     *)
(* engine.  Hit.Test drives Request.Execute over every method's list of    *)
(* requests; Execute encodes the body, builds and dispatches the request   *)
(* and compares the observed response with Response.Compare, which in turn *)
(* uses CompareStatus, Header.Compare and JSONBody.Compare.                *)
(*                                                                         *)
(* Go values are tagged records: Nil is Go's nil, Error(msg) an error      *)
(* value whose text is the sequence of lines msg, Panic a run-time panic   *)
(* (index out of range, nil dereference).  A Go map is a function; the     *)
(* order in which `range` visits its keys is an input of every operator    *)
(* that ranges over one.                                                   *)
(***************************************************************************)
EXTENDS Integers, Sequences, FiniteSets, TLC

VARIABLES
    hit,      \* the Hit under test: [Path, Requests]
    todo,     \* Hit.Test: methods the outer range has not visited yet
    m,        \* Hit.Test: the method of the current iteration
    i,        \* Hit.Test: index of the current request in hit.Requests[m]
    pc,       \* position of the single thread of control
    body,     \* Request.Execute: the reader r.Body.Body() returned
    req,      \* Request.Execute: the outbound *http.Request
    res,      \* Request.Execute: the *http.Response client.Do returned
    err,      \* Request.Execute: the error of the last call
    reports,  \* testing.T: the failures t.Error received, in order
    ran,      \* per request, what has happened to it so far
    args,     \* direct call of one function: its receiver and arguments
    out       \* direct call of one function: what it returned

vars == <<hit, todo, m, i, pc, body, req, res, err, reports, ran, args, out>>

runVars == <<hit, todo, m, i, body, req, res, err, reports, ran>>

(***************************************************************************)
(* Bounds of the model.                                                    *)
(***************************************************************************)
MaxVals == 2      \* values per header key
MaxReqs == 2      \* requests per method
MaxMembers == 2   \* members of an observed JSON object, elements of an array

(***************************************************************************)
(* Go values.                                                              *)
(***************************************************************************)
Nil == [t |-> "nil"]

Panic == [t |-> "panic"]

Error(msg) == [t |-> "error", msg |-> msg]

IsError(e) == e.t = "error"

\* a non-nil Go map with contents f
Map(f) == [t |-> "map", v |-> f]

\* the sequences over S of length lo..hi
SeqsOf(S, lo, hi) == UNION {[1..n -> S] : n \in lo..hi}

\* the orders in which `range` may visit the key set S
Orders(S) ==
    {o \in [1..Cardinality(S) -> S] : \A a, b \in 1..Cardinality(S) : a # b => o[a] # o[b]}

Keys(h) == IF h = Nil THEN {} ELSE DOMAIN h.v

(***************************************************************************)
(* Header.                                                                 *)
(***************************************************************************)
\* textproto.CanonicalMIMEHeaderKey on the keys of the model
CanonicalKey(k) ==
    CASE k = "foo" -> "Foo"
      [] k = "content-type" -> "Content-Type"
      [] OTHER -> k

\* http.Header.Get: the first value of the canonical key, "" when there is none
Get(hh, k) ==
    LET c == CanonicalKey(k)
    IN  IF c \in DOMAIN hh /\ Len(hh[c]) > 0 THEN hh[c][1] ELSE ""

\* fmt.Errorf(msg) takes msg as a format string with no operands: a '%' in it
\* starts a verb whose operand is missing
Verbs(s) == IF s = "100%" THEN "100%!\"(MISSING)" ELSE s

Errorf(msg) ==
    [j \in 1..Len(msg) |-> <<msg[j][1], msg[j][2], Verbs(msg[j][3]), Verbs(msg[j][4])>>]

\* one line of a message: <<what, ...>>; the colour codes are left out
HeaderLine(k, val, want) == <<"Header", k, val, want>>

\* the lines Header.Compare appends while ranging over h in the given order
RECURSIVE HeaderMsg(_, _, _)
HeaderMsg(h, hh, order) ==
    IF order = <<>> THEN <<>>
    ELSE LET k == Head(order)
             val == Get(hh, k)
         IN  (IF val # h.v[k][1] THEN <<HeaderLine(k, val, h.v[k][1])>> ELSE <<>>)
             \o HeaderMsg(h, hh, Tail(order))

\* v[0] of a key without values is an index out of range
HeaderComparePanics(h) == \E k \in Keys(h) : Len(h.v[k]) = 0

HeaderCompare(h, hh, order) ==
    IF HeaderComparePanics(h) THEN Panic
    ELSE LET msg == HeaderMsg(h, hh, order)
         IN  IF msg # <<>> THEN Error(Errorf(msg)) ELSE Nil

(***************************************************************************)
(* JSONBody: a map[string]interface{}.  The values of an expectation are   *)
(* Go values; a stream of JSON text is the sequence of its members in the  *)
(* order they are written.                                                 *)
(***************************************************************************)
GoString(s) == [t |-> "string", v |-> s]

GoInt(n) == [t |-> "int", v |-> n]

GoSlice(s) == [t |-> "slice", v |-> s]

GoMap(f) == [t |-> "map", v |-> f]

\* a value encoding/json has no encoding for (a func, a chan)
GoFunc == [t |-> "func", v |-> "func"]

\* JSON text
JStr(s) == [t |-> "str", v |-> s]

JNum(lit) == [t |-> "num", v |-> lit]

JArr(s) == [t |-> "arr", v |-> s]

JObj(members) == [t |-> "obj", v |-> members]

JNull == [t |-> "null", v |-> "null"]

\* an io.Reader: JSON text, nothing at all, text that is not JSON, or a
\* reader whose Read fails (a closed body)
Text(j) == [t |-> "text", v |-> j]

Empty == [t |-> "empty", v |-> "empty"]

Garbage == [t |-> "garbage", v |-> "garbage"]

Closed == [t |-> "closed", v |-> "closed"]

\* byte order of the keys of the model, as sort.Strings sees them
KeyRank(k) ==
    CASE k = "A" -> 1
      [] k = "B" -> 2
      [] k = "C" -> 3
      [] k = "Hello" -> 4
      [] k = "olleH" -> 5
      [] OTHER -> 6

SortedKeys(S) ==
    CHOOSE o \in Orders(S) :
        \A a, b \in 1..Cardinality(S) : a < b => KeyRank(o[a]) < KeyRank(o[b])

\* strconv's decimal text of an int
IntLit(n) ==
    CASE n = 0 -> "0"
      [] n = 1 -> "1"
      [] n = 2 -> "2"
      [] OTHER -> "3"

RECURSIVE Encodable(_)
Encodable(x) ==
    CASE x.t = "func" -> FALSE
      [] x.t = "slice" -> \A j \in 1..Len(x.v) : Encodable(x.v[j])
      [] x.t = "map" -> \A k \in DOMAIN x.v : Encodable(x.v[k])
      [] OTHER -> TRUE

\* json.Marshal of one value: object keys in sorted order
RECURSIVE Encode(_)
Encode(x) ==
    CASE x.t = "string" -> JStr(x.v)
      [] x.t = "int" -> JNum(IntLit(x.v))
      [] x.t = "slice" -> JArr([j \in 1..Len(x.v) |-> Encode(x.v[j])])
      [] x.t = "map" ->
            LET ks == SortedKeys(DOMAIN x.v)
            IN  JObj([j \in 1..Len(ks) |-> <<ks[j], Encode(x.v[ks[j]])>>])
      [] OTHER -> JNull

\* JSONBody.Body: the marshalled receiver as a reader, or an error
JSONBodyBody(b) ==
    IF ~Encodable(b)
    THEN [r |-> Nil, err |-> Error(<<<<"hit: JSONBody.Body failed", b>>>>)]
    ELSE [r |-> Text(Encode(b)), err |-> Nil]

\* what json.Decoder with UseNumber makes of one JSON value: a number keeps
\* its text (json.Number), an object becomes a map in which the last of
\* several members with one key wins
RECURSIVE Decoded(_)
Decoded(j) ==
    CASE j.t = "str" -> [t |-> "string", v |-> j.v]
      [] j.t = "num" -> [t |-> "json.Number", v |-> j.v]
      [] j.t = "arr" -> [t |-> "[]interface{}", v |-> [n \in 1..Len(j.v) |-> Decoded(j.v[n])]]
      [] j.t = "obj" ->
            LET last(k) == CHOOSE n \in 1..Len(j.v) :
                               /\ j.v[n][1] = k
                               /\ \A n2 \in 1..Len(j.v) : j.v[n2][1] = k => n2 <= n
            IN  [t |-> "map[string]interface{}",
                 v |-> [k \in {j.v[n][1] : n \in 1..Len(j.v)} |-> Decoded(j.v[last(k)][2])]]
      [] OTHER -> [t |-> "nil", v |-> "nil"]

EmptyMap == [t |-> "map[string]interface{}", v |-> [k \in {} |-> Nil]]

NilMap == [t |-> "map[string]interface{}(nil)", v |-> "nil"]

\* a decoder whose errors are all taken for the end of the stream
DecodeSwallowingErrors(r) ==
    CASE r.t \in {"empty", "garbage", "closed"} -> [err |-> "EOF", val |-> EmptyMap]
      [] r.v.t = "obj" -> [err |-> "", val |-> Decoded(r.v)]
      [] r.v.t = "null" -> [err |-> "", val |-> NilMap]
      [] OTHER -> [err |-> "EOF", val |-> EmptyMap]

\* d.Decode(&into) on a reader, into being make(map[string]interface{}):
\* the error (Nil, "EOF" or another) and the map afterwards
Decode(r) ==
    CASE r.t = "empty" -> [err |-> "EOF", val |-> EmptyMap]
      [] r.t = "garbage" -> [err |-> "invalid character", val |-> EmptyMap]
      [] r.t = "closed" -> [err |-> "read on closed body", val |-> EmptyMap]
      [] r.v.t = "obj" -> [err |-> "", val |-> Decoded(r.v)]
      [] r.v.t = "null" -> [err |-> "", val |-> NilMap]
      [] OTHER -> [err |-> "cannot unmarshal into map", val |-> EmptyMap]

\* equality of the key sets alone
DeepEqualKeys(a, b) == a.t = b.t /\ (a.t = "map[string]interface{}" => DOMAIN a.v = DOMAIN b.v)

\* reflect.DeepEqual
DeepEqual(a, b) == a = b

\* JSONBody.Compare
JSONBodyCompare(b, r) ==
    IF r = Nil THEN Panic
    ELSE
    LET got == Decode(r)
        r2 == JSONBodyBody(b)
        want == Decode(r2.r)
    IN  IF got.err # "" /\ got.err # "EOF"
        THEN Error(<<<<"hit: error decoding http.Response.Body", got.val, got.err>>>>)
        ELSE IF r2.err # Nil
        THEN Error(<<<<"hit: Bodyer error", b, r2.err>>>>)
        ELSE IF want.err # "" /\ want.err # "EOF"
        THEN Error(<<<<"hit: error decoding hit.Response.Bodyer", want.val, want.err>>>>)
        ELSE IF ~DeepEqual(got.val, want.val)
        THEN Error(<<<<"Body", got.val, want.val>>>>)
        ELSE Nil

(***************************************************************************)
(* Response: the expectation [Status, Header, Body].  The observed         *)
(* *http.Response is [StatusCode, Header, Body], or Nil.                   *)
(***************************************************************************)
\* Response.CompareStatus
CompareStatus(r, status) ==
    IF status # r.Status THEN Error(<<<<"StatusCode", status, r.Status>>>>) ELSE Nil

\* err.Error() of a check's result, "" when it is nil
Message(e) == IF IsError(e) THEN e.msg ELSE <<>>

\* Response.Compare taking an absent body expectation for an empty one
ResponseCompareNilBodyIsEmpty(r, resp, order) ==
    IF resp = Nil THEN Panic
    ELSE
    LET st == CompareStatus(r, resp.StatusCode)
        hd == IF r.Header # Nil THEN HeaderCompare(r.Header, resp.Header, order) ELSE Nil
        bd == IF resp.Body = Nil THEN Nil
              ELSE JSONBodyCompare(IF r.Body # Nil THEN r.Body ELSE GoMap(<<>>), resp.Body)
        msg == Message(st) \o Message(hd) \o Message(bd)
    IN  IF hd = Panic THEN Panic
        ELSE IF bd = Panic THEN Panic
        ELSE IF msg # <<>> THEN Error(msg) ELSE Nil

\* Response.Compare; order is the order in which Header.Compare ranges
ResponseCompare(r, resp, order) ==
    IF resp = Nil THEN Panic
    ELSE
    LET st == CompareStatus(r, resp.StatusCode)
        hd == IF r.Header # Nil THEN HeaderCompare(r.Header, resp.Header, order) ELSE Nil
        bd == IF r.Body # Nil THEN JSONBodyCompare(r.Body, resp.Body) ELSE Nil
        msg == Message(st) \o Message(hd) \o Message(bd)
    IN  IF hd = Panic THEN Panic
        ELSE IF bd = Panic THEN Panic
        ELSE IF msg # <<>> THEN Error(msg) ELSE Nil

(***************************************************************************)
(* Bodyer: the request bodies.  A body is Nil or [t |-> variant, v |-> the *)
(* map]; Body() yields [r |-> reader, err |-> error].                      *)
(***************************************************************************)
JSONBody(b) == [t |-> "JSONBody", v |-> b]

FormBody(f) == [t |-> "FormBody", v |-> f]

MultipartBody(f) == [t |-> "MultipartBody", v |-> f]

File(type, name, contents) == [t |-> "File", v |-> <<type, name, contents>>]

boundary == "testboundary"

\* Bodyer.Type
Type(b) ==
    CASE b.t = "JSONBody" -> "application/json"
      [] b.t = "FormBody" -> "application/x-www-form-urlencoded"
      [] OTHER -> "multipart/form-data; boundary=testboundary"

\* FormBody.Body: url.Values.Encode writes the keys in sorted order
FormBodyBody(f) ==
    LET ks == SortedKeys(DOMAIN f)
        RECURSIVE pairs(_)
        pairs(n) == IF n > Len(ks) THEN <<>>
                    ELSE [j \in 1..Len(f[ks[n]]) |-> <<ks[n], f[ks[n]][j]>>] \o pairs(n + 1)
    IN  [r |-> [t |-> "form", v |-> pairs(1)], err |-> Nil]

\* one part of a multipart stream
Part(k, x) ==
    IF x.t = "string"
    THEN <<<<"--", boundary>>, <<"Content-Disposition", k>>, x.v>>
    ELSE <<<<"--", boundary>>, <<"Content-Disposition", k, x.v[2], "Content-Type", x.v[1]>>, x.v[3]>>

\* MultipartBody.Body: the parts in the order the range visits the keys; the
\* first value that is neither a string nor a File ends it with an error
RECURSIVE MultipartParts(_, _, _, _)
MultipartParts(f, order, n, j) ==
    IF n > Len(order) THEN [parts |-> <<>>, err |-> Nil]
    ELSE IF j > Len(f[order[n]]) THEN MultipartParts(f, order, n + 1, 1)
    ELSE LET k == order[n]
             x == f[k][j]
         IN  IF x.t \notin {"string", "File"}
             THEN [parts |-> <<>>, err |-> Error(<<<<"hit: unsupported type", k, x.t>>>>)]
             ELSE LET rest == MultipartParts(f, order, n, j + 1)
                  IN  [parts |-> <<Part(k, x)>> \o rest.parts, err |-> rest.err]

MultipartBodyBody(f, order) ==
    LET w == MultipartParts(f, order, 1, 1)
    IN  IF w.err # Nil THEN [r |-> Nil, err |-> w.err]
        ELSE [r |-> [t |-> "multipart", v |-> Append(w.parts, <<"--", boundary, "--">>)],
              err |-> Nil]

\* r.Body.Body()
BodyerBody(b, order) ==
    CASE b.t = "JSONBody" -> JSONBodyBody(b.v)
      [] b.t = "FormBody" -> FormBodyBody(b.v)
      [] OTHER -> MultipartBodyBody(b.v, order)

\* the keys a body's Body() ranges over in an order Go leaves open
RangedKeys(b) ==
    IF b # Nil /\ b.t = "MultipartBody" THEN DOMAIN b.v ELSE {}

(***************************************************************************)
(* The outbound request and the transport.                                 *)
(***************************************************************************)
\* http.Header.Set: replace the values under the canonical key by v
HeaderSet(hdr, k, v) ==
    LET c == CanonicalKey(k)
    IN  [x \in DOMAIN hdr \cup {c} |-> IF x = c THEN <<v>> ELSE hdr[x]]

\* AddTo setting each value in place of the ones before it
HeaderAddReplacing(hdr, k, v) == HeaderSet(hdr, k, v)

\* http.Header.Add: append v under the canonical key
HeaderAdd(hdr, k, v) ==
    LET c == CanonicalKey(k)
    IN  IF c \in DOMAIN hdr THEN [hdr EXCEPT ![c] = Append(@, v)]
        ELSE [x \in DOMAIN hdr \cup {c} |-> IF x = c THEN <<v>> ELSE hdr[x]]

\* Header.AddTo: every value of every key, the keys in the order of the range
RECURSIVE AddTo(_, _, _, _, _)
AddTo(h, hdr, order, n, j) ==
    IF n > Len(order) THEN hdr
    ELSE IF j > Len(h.v[order[n]]) THEN AddTo(h, hdr, order, n + 1, 1)
    ELSE AddTo(h, HeaderAdd(hdr, order[n], h.v[order[n]][j]), order, n, j + 1)

Addr == "localhost:3456"

\* url.Parse inside http.NewRequest, on the paths of the model
ValidURL(path) == path # "/%zz"

\* lines 87-92 of Execute: the header of the request
RequestHeader(r, order) ==
    LET h0 == [x \in {} |-> <<>>]
        h1 == IF r.Body # Nil THEN HeaderSet(h0, "Content-Type", Type(r.Body)) ELSE h0
    IN  IF r.Header # Nil THEN AddTo(r.Header, h1, order, 1, 1) ELSE h1

\* errors.New("just a redirect")
errRedirect == <<"just", "a", "redirect">>

\* strings.Contains on texts that are sequences of words
Contains(s, sub) ==
    \E off \in 0..(Len(s) - Len(sub)) : SubSeq(s, off + 1, off + Len(sub)) = sub

\* the text of a transport error: *url.Error prints op, URL and the cause
ErrorText(e) == <<e.msg[1][2], e.msg[1][3], ":">> \o e.msg[1][4]

URLError(op, url, cause) == Error(<<<<"url.Error", op, url, cause>>>>)

isRedirectErrorNever(e) == FALSE

\* isRedirectError: whether the text of e contains that of errRedirect
isRedirectError(e) == Contains(ErrorText(e), errRedirect)

\* what client.Do may return for a request: a response, the response of a
\* redirect the client refused to follow together with the error of
\* CheckRedirect, or no response and the error of a transport fault
Responses ==
    {[StatusCode |-> 200, Header |-> [k \in {"Foo"} |-> <<"bar">>],
      Body |-> Text(JObj(<<<<"Hello", JStr("World")>>>>))],
     [StatusCode |-> 404, Header |-> [k \in {"Foo"} |-> <<"baz">>],
      Body |-> Text(JObj(<<<<"olleH", JStr("dlroW")>>>>))]}

Redirected ==
    [StatusCode |-> 302, Header |-> [k \in {"Location"} |-> <<"/elsewhere">>], Body |-> Closed]

Faults ==
    {<<"dial", "tcp", "connection", "refused">>,
     <<"malformed", "HTTP", "response", "just", "a", "redirect">>}

Outcomes(rq) ==
    {[res |-> x, err |-> Nil] : x \in Responses}
    \cup {[res |-> Redirected, err |-> URLError(rq.Method, rq.URL, errRedirect)]}
    \cup {[res |-> Nil, err |-> URLError(rq.Method, rq.URL, c)] : c \in Faults}

\* net/http's contract for Do: a response together with an error is the
\* refused redirect, an error without a response any other failure
Kind(o) ==
    IF o.err = Nil THEN "response"
    ELSE IF o.res # Nil THEN "redirect" ELSE "fault"

(***************************************************************************)
(* Hit.Test and Request.Execute.                                           *)
(***************************************************************************)
Methods == {"GET", "POST"}

\* a Request that has not been executed
Fresh ==
    [calls |-> 0, sent |-> 0, outcome |-> "none", compared |-> 0, result |-> "none",
     reported |-> 0]

RangeIndexReversed(rr, n) == Len(rr) + 1 - n

\* the element the i-th iteration of `range rr` visits
RangeIndex(rr, n) == n

\* the request of the current iteration of Hit.Test
Slot == RangeIndex(hit.Requests[m], i)

Cur == hit.Requests[m][Slot]

\* Hit.Test, line 49: the outer range takes the next method, in any order
TestRange ==
    /\ pc = "range"
    /\ todo # {}
    /\ \E mm \in todo :
        /\ m' = mm
        /\ todo' = todo \ {mm}
        /\ i' = 1
        /\ pc' = IF Len(hit.Requests[mm]) = 0 THEN "range" ELSE "execute"
    /\ UNCHANGED <<hit, body, req, res, err, reports, ran, args, out>>

\* Hit.Test, line 57: every method has been visited
TestReturn ==
    /\ pc = "range"
    /\ todo = {}
    /\ pc' = "done"
    /\ UNCHANGED <<hit, todo, m, i, body, req, res, err, reports, ran, args, out>>

AfterBodyIgnoringError(e) == "newrequest"

\* Execute, lines 76-78: an encoding error is returned at once
AfterBody(e) == IF e # Nil THEN "report" ELSE "newrequest"

\* Execute, lines 72-79: encode the body when there is one
ExecuteBody ==
    /\ pc = "execute"
    /\ \E order \in Orders(RangedKeys(Cur.Body)) :
        LET b == IF Cur.Body # Nil THEN BodyerBody(Cur.Body, order)
                 ELSE [r |-> Nil, err |-> Nil]
        IN  /\ body' = b.r
            /\ err' = b.err
            /\ pc' = AfterBody(b.err)
            /\ ran' = [ran EXCEPT ![m][Slot].calls = @ + 1,
                                   ![m][Slot].result =
                                       IF AfterBody(b.err) = "report" THEN "error" ELSE @]
    /\ UNCHANGED <<hit, todo, m, i, req, res, reports, args, out>>

\* Execute, lines 81-92: build the request; a malformed URL ends the process
ExecuteNewRequest ==
    /\ pc = "newrequest"
    /\ IF ~ValidURL(hit.Path)
       THEN /\ pc' = "fatal"
            /\ UNCHANGED req
       ELSE /\ \E order \in Orders(Keys(Cur.Header)) :
                   req' = [Method |-> m, URL |-> <<"http://", Addr, hit.Path>>,
                           Header |-> RequestHeader(Cur, order), Body |-> body]
            /\ pc' = "do"
    /\ UNCHANGED <<hit, todo, m, i, body, res, err, reports, ran, args, out>>

\* Execute, lines 96-98: any error but that of a refused redirect ends the process
AfterDo(e) == IF e # Nil /\ ~isRedirectError(e) THEN "fatal" ELSE "compare"

\* Execute, lines 94-98: dispatch the request
ExecuteDo ==
    /\ pc = "do"
    /\ \E o \in Outcomes(req) :
        /\ res' = o.res
        /\ err' = o.err
        /\ pc' = AfterDo(o.err)
        /\ ran' = [ran EXCEPT ![m][Slot].sent = @ + 1,
                               ![m][Slot].outcome = Kind(o)]
    /\ UNCHANGED <<hit, todo, m, i, body, req, reports, args, out>>

\* the failure of an Execute that prints the body whether there is one or not
ExecuteResultAlwaysWithBody(method, path, r, e) ==
    IF e # Nil
    THEN Error(<<<<"context", method, path, r.Header, "Body", r.Body>>>> \o e.msg)
    ELSE Nil

\* Execute, lines 100-112: the failure Execute makes of Compare's error, the
\* line of method, path and header, with the body when there is one, and
\* after it the text of the error
ExecuteResult(method, path, r, e) ==
    IF e # Nil
    THEN LET msg == <<"context", method, path, r.Header>>
                        \o (IF r.Body # Nil THEN <<"Body", r.Body>> ELSE <<>>)
         IN  Error(<<msg>> \o e.msg)
    ELSE Nil

\* Execute, lines 99-115: compare the response and return
ExecuteCompare ==
    /\ pc = "compare"
    /\ \E order \in Orders(Keys(Cur.Want.Header)) :
        LET e == ResponseCompare(Cur.Want, res, order)
        IN  IF e = Panic
            THEN /\ pc' = "panic"
                 /\ UNCHANGED <<err, ran>>
            ELSE /\ pc' = "report"
                 /\ err' = ExecuteResult(m, hit.Path, Cur, e)
                 /\ ran' = [ran EXCEPT ![m][Slot].compared = @ + 1,
                                        ![m][Slot].result = IF e # Nil THEN "error" ELSE "nil"]
    /\ UNCHANGED <<hit, todo, m, i, body, req, res, reports, args, out>>

TestNextStoppingOnFailure(e, n, len) == IF n < len /\ e = Nil THEN "execute" ELSE "range"

\* Hit.Test, line 50: the inner range goes on while requests are left
TestNext(e, n, len) == IF n < len THEN "execute" ELSE "range"

\* Hit.Test, lines 50-55: report the failure, if any, and go on
TestReport ==
    /\ pc = "report"
    /\ reports' = IF err # Nil THEN Append(reports, err) ELSE reports
    /\ ran' = [ran EXCEPT ![m][Slot].reported = IF err # Nil THEN @ + 1 ELSE @]
    /\ pc' = TestNext(err, i, Len(hit.Requests[m]))
    /\ i' = IF TestNext(err, i, Len(hit.Requests[m])) = "execute" THEN i + 1 ELSE i
    /\ UNCHANGED <<hit, todo, m, body, req, res, err, args, out>>

Next ==
    \/ TestRange
    \/ TestReturn
    \/ ExecuteBody
    \/ ExecuteNewRequest
    \/ ExecuteDo
    \/ ExecuteCompare
    \/ TestReport

\* the requests of the runs
PlainRequest == [Header |-> Nil, Body |-> Nil, Want |-> [Status |-> 200, Header |-> Nil, Body |-> Nil]]

JSONRequest ==
    [Header |-> Map([k \in {"Auth"} |-> <<"6tygfd4", "100%">>]),
     Body |-> JSONBody(GoMap([k \in {"x"} |-> GoInt(1)])),
     Want |-> [Status |-> 200, Header |-> Map([k \in {"Foo"} |-> <<"bar">>]),
               Body |-> GoMap([k \in {"Hello"} |-> GoString("World")])]]

BadMultipartRequest ==
    [Header |-> Nil,
     Body |-> MultipartBody([k \in {"A"} |-> <<GoString("foo"), GoInt(1)>>]),
     Want |-> [Status |-> 200, Header |-> Nil, Body |-> Nil]]

Pool == {PlainRequest, JSONRequest, BadMultipartRequest}

Paths == {"/foo/bar", "/%zz"}

\* up to MaxReqs requests under GET; POST, there for the order of the
\* methods, holds one request at most
Hits ==
    {[Path |-> p, Requests |-> [mm \in Methods |-> IF mm = "GET" THEN g ELSE o]] :
        p \in Paths, g \in SeqsOf(Pool, 0, MaxReqs), o \in SeqsOf(Pool, 0, 1)}

NoCall == [fn |-> "none"]

\* the state in which Hit.Test is called on h
RunInit(h) ==
    /\ hit = h
    /\ todo = DOMAIN h.Requests
    /\ m = ""
    /\ i = 0
    /\ pc = "range"
    /\ body = Nil
    /\ req = Nil
    /\ res = Nil
    /\ err = Nil
    /\ reports = <<>>
    /\ ran = [mm \in DOMAIN h.Requests |-> [j \in 1..Len(h.Requests[mm]) |-> Fresh]]
    /\ args = NoCall
    /\ out = Nil

Init == \E h \in Hits : RunInit(h)

Spec == Init /\ [][Next]_vars

(***************************************************************************)
(* Properties of a run of Hit.Test.                                        *)
(***************************************************************************)
\* the requests of the Hit, as <<method, index>>
Slots == UNION {{<<mm, j>> : j \in 1..Len(ran[mm])} : mm \in DOMAIN ran}

\* Execute is under way, or has just returned, for the request at Slot
InExecute == pc \in {"execute", "newrequest", "do", "compare", "report", "fatal", "panic"}

IsCurrent(s) == InExecute /\ s[1] = m /\ s[2] = Slot

Ran(s) == ran[s[1]][s[2]]

Returned(s) == Ran(s).result # "none"

\* C3: within one method the requests are executed in declared order: when
\* Execute is called for request j+1, Execute of request j has returned,
\* and if request j was dispatched its response has been compared; no
\* request is executed twice.  The order of the methods is free.
C3_DeclaredOrder ==
    \A s \in Slots :
        /\ Ran(s).calls <= 1
        /\ (s[2] > 1 /\ Ran(s).calls > 0) =>
               LET p == <<s[1], s[2] - 1>>
               IN  /\ Ran(p).calls = 1
                   /\ Returned(p)
                   /\ Ran(p).sent > 0 => Ran(p).compared = 1

\* the second request of a method has been dispatched after the first was
\* compared, while the other method is still to come
C3_Witness ==
    \E s \in Slots :
        /\ s[2] = 2
        /\ Ran(s).sent = 1
        /\ Ran(<<s[1], 1>>).compared = 1
        /\ todo # {}

\* the requests Execute has returned an error for and Test has reported
Reported == {s \in Slots : Ran(s).reported = 1}

\* C4: a failed request (encoding error or mismatch) does not halt the
\* run.  When Test returns, every request of every method has been executed
\* exactly once; the harness holds exactly one report per request whose
\* Execute returned an error and none for the others; and the run ends
\* early only inside an Execute that has not returned.
C4_FailureDoesNotHalt ==
    /\ \A s \in Slots :
          /\ Ran(s).calls <= 1
          /\ Ran(s).reported <= 1
          /\ Ran(s).reported = 1 => Ran(s).result = "error"
          /\ (Ran(s).result = "error" /\ ~(IsCurrent(s) /\ pc = "report"))
                 => Ran(s).reported = 1
    /\ Len(reports) = Cardinality(Reported)
    /\ pc = "done" => \A s \in Slots : Ran(s).calls = 1 /\ Returned(s)
    /\ pc \in {"fatal", "panic"} => ~Returned(<<m, Slot>>)

\* Test has returned although the first request of a method failed, and the
\* request after it succeeded
C4_Witness ==
    /\ pc = "done"
    /\ \E s \in Slots :
          /\ s[2] = 2
          /\ Ran(<<s[1], 1>>).result = "error"
          /\ Ran(s).result = "nil"
    /\ Len(reports) >= 1

\* the body of request r cannot be encoded
EncodeFails(r) ==
    /\ r.Body # Nil
    /\ \A order \in Orders(RangedKeys(r.Body)) : BodyerBody(r.Body, order).err # Nil

\* C5: when the encoding of the body fails, Execute returns the error of
\* the encoder to its caller, no request is dispatched and no response is
\* compared for that request.
C5_EncodeFailureAborts ==
    /\ \A s \in Slots :
          (Ran(s).calls > 0 /\ EncodeFails(hit.Requests[s[1]][s[2]])) =>
              /\ Ran(s).sent = 0
              /\ Ran(s).compared = 0
              /\ Ran(s).result = "error"
    /\ (pc = "report" /\ EncodeFails(Cur)) =>
          \E order \in Orders(RangedKeys(Cur.Body)) : err = BodyerBody(Cur.Body, order).err

\* a request whose multipart body holds an int has been reported
C5_Witness ==
    \E s \in Slots :
        /\ EncodeFails(hit.Requests[s[1]][s[2]])
        /\ Ran(s).reported = 1
        /\ Ran(s).sent = 0

\* C6: a transport failure other than a refused redirect ends the run in
\* Execute's log.Fatalf: it is not taken for a refused redirect (Execute
\* does not go on to Compare), nothing is compared or returned for the
\* request, and no later request is executed.
C6_TransportFaultIsFatal ==
    \A s \in Slots :
        Ran(s).outcome = "fault" =>
            /\ pc = "fatal"
            /\ IsCurrent(s)
            /\ Ran(s).compared = 0
            /\ ~Returned(s)

\* C7: a refused redirect does not end the run.  Execute goes on to compare
\* the response it came with, returns what Response.Compare makes of that
\* response, and the requests after it are executed.
C7_RefusedRedirectIsCompared ==
    /\ \A s \in Slots :
          Ran(s).outcome = "redirect" =>
              /\ IsCurrent(s) => pc \in {"compare", "report"}
              /\ (IsCurrent(s) /\ pc = "compare") => res = Redirected
              /\ ~(IsCurrent(s) /\ pc = "compare") => Ran(s).compared = 1 /\ Returned(s)
              /\ (IsCurrent(s) /\ pc = "report") =>
                     \E order \in Orders(Keys(Cur.Want.Header)) :
                         err = ExecuteResult(m, hit.Path, Cur,
                                             ResponseCompare(Cur.Want, Redirected, order))
    /\ pc = "done" => \A s \in Slots : Ran(s).calls = 1

\* a request that met a refused redirect has been reported and the request
\* after it has been executed
C7_Witness ==
    \E s \in Slots :
        /\ s[2] = 2
        /\ Ran(<<s[1], 1>>).outcome = "redirect"
        /\ Ran(<<s[1], 1>>).reported = 1
        /\ Ran(s).result # "none"

\* C13: Execute returns nil exactly when the encoding of the body, if there
\* is one, succeeded and Response.Compare returned nil.  When
\* Response.Compare returns an error, Execute returns an error that is one
\* line naming the method, the path and the declared header of the request,
\* and its declared body only when it has one, followed by the lines of
\* Compare's error unchanged.
C13_ExecuteWrapsCompare ==
    pc = "report" =>
        LET s == <<m, Slot>>
            context == IF Cur.Body = Nil
                       THEN <<"context", m, hit.Path, Cur.Header>>
                       ELSE <<"context", m, hit.Path, Cur.Header, "Body", Cur.Body>>
        IN  /\ err = Nil <=>
                  /\ ~EncodeFails(Cur)
                  /\ Ran(s).compared = 1
                  /\ \E order \in Orders(Keys(Cur.Want.Header)) :
                        ResponseCompare(Cur.Want, res, order) = Nil
            /\ Ran(s).compared = 1 =>
                  \E order \in Orders(Keys(Cur.Want.Header)) :
                      LET e == ResponseCompare(Cur.Want, res, order)
                      IN  IsError(e) =>
                              /\ IsError(err)
                              /\ Head(err.msg) = context
                              /\ Tail(err.msg) = e.msg

\* a request without a body and a request with one have both failed in the
\* comparison: the first report has the line without a body and the second
\* the line with it
C13_Witness ==
    /\ pc = "report"
    /\ Slot = 2
    /\ hit.Requests[m][1].Body = Nil
    /\ Cur.Body # Nil
    /\ Ran(<<m, 1>>).compared = 1
    /\ Ran(<<m, 2>>).compared = 1
    /\ Len(reports) = 1
    /\ Len(Head(reports[1].msg)) = 4
    /\ IsError(err)
    /\ Len(Head(err.msg)) = 6
    /\ Len(err.msg) = 4

(***************************************************************************)
(* Direct calls of the comparison functions, as the package's tests make   *)
(* them: the receiver and the arguments are drawn in the initial state,    *)
(* the one action is the call.                                             *)
(***************************************************************************)
NoHit == [Path |-> "", Requests |-> [mm \in {} |-> <<>>]]

CallInit(a) ==
    /\ hit = NoHit
    /\ todo = {}
    /\ m = ""
    /\ i = 0
    /\ pc = "call"
    /\ body = Nil
    /\ req = Nil
    /\ res = Nil
    /\ err = Nil
    /\ reports = <<>>
    /\ ran = [mm \in {} |-> <<>>]
    /\ args = a
    /\ out = Nil

HeaderValues == {"bar", "100%"}

\* the headers over the key set K, each key with 0..MaxVals values
HeadersOver(K) == UNION {[S -> SeqsOf(HeaderValues, 0, MaxVals)] : S \in SUBSET K}

\* expected headers: Header(nil) or a map; "foo" and "Foo" are one field
ExpectedHeaders == {Nil} \cup {Map(f) : f \in HeadersOver({"Foo", "foo"})}

\* observed headers: the keys of an http.Header off the wire are canonical
ObservedHeaders == HeadersOver({"Foo", "Bar"})

InitHeaderCompare ==
    \E h \in ExpectedHeaders, hh \in ObservedHeaders :
        CallInit([fn |-> "Header.Compare", h |-> h, hh |-> hh])

\* h.Compare(hh)
CallHeaderCompare ==
    /\ pc = "call"
    /\ args.fn = "Header.Compare"
    /\ \E order \in Orders(Keys(args.h)) : out' = HeaderCompare(args.h, args.hh, order)
    /\ pc' = "returned"
    /\ UNCHANGED <<hit, todo, m, i, body, req, res, err, reports, ran, args>>

SpecHeaderCompare == InitHeaderCompare /\ [][CallHeaderCompare]_vars

\* field names without their case
Fold(k) ==
    CASE k = "Foo" -> "foo"
      [] k = "Bar" -> "bar"
      [] k = "Content-Type" -> "content-type"
      [] OTHER -> k

\* the first value observed for field k whatever its case, "" when absent
FirstObserved(hh, k) ==
    IF \E c \in DOMAIN hh : Fold(c) = Fold(k) /\ hh[c] # <<>>
    THEN hh[CHOOSE c \in DOMAIN hh : Fold(c) = Fold(k) /\ hh[c] # <<>>][1]
    ELSE ""

\* the keys of the expectation h whose first value is not the one observed
Mismatching(h, hh) == {k \in Keys(h) : FirstObserved(hh, k) # h.v[k][1]}

\* C2: Header.Compare is a subset check on first values.  For every
\* expected and every observed header it returns: nil exactly when no
\* expected key mismatches, and otherwise an error with exactly one line per
\* mismatching key and none for any other key, a line naming the first
\* observed and the first expected value (as fmt.Errorf prints them).  Keys
\* and later values only the observed header has never matter.
C2_SubsetOnFirstValues ==
    pc = "returned" =>
        /\ out # Panic
        /\ LET mism == Mismatching(args.h, args.hh)
           IN
            /\ out = Nil <=> mism = {}
            /\ IsError(out) =>
                  /\ Len(out.msg) = Cardinality(mism)
                  /\ {out.msg[n][2] : n \in 1..Len(out.msg)} = mism
                  /\ \A n \in 1..Len(out.msg) :
                        out.msg[n] = <<"Header", out.msg[n][2],
                                       Verbs(FirstObserved(args.hh, out.msg[n][2])),
                                       Verbs(args.h.v[out.msg[n][2]][1])>>

\* "Foo" matches, "foo" does not, and the observed header has a second
\* value of Foo and a key of its own: one line, naming "foo"
C2_Witness ==
    /\ pc = "returned"
    /\ Keys(args.h) = {"Foo", "foo"}
    /\ DOMAIN args.hh = {"Foo", "Bar"}
    /\ Len(args.hh["Foo"]) = 2
    /\ args.hh["Foo"][1] # args.hh["Foo"][2]
    /\ IsError(out)
    /\ Len(out.msg) = 1
    /\ out.msg[1][2] = "foo"

\* C14: Header.Compare is total.  For every expected header, one with a key
\* that maps to no values included, and every observed header, the call
\* ends normally with nil or with a mismatch error; it never ends in a
\* panic.
C14_HeaderCompareIsTotal ==
    (pc = "returned" /\ args.fn = "Header.Compare") => (out = Nil \/ IsError(out))

\* expectations and observed responses of the direct calls of Response.Compare
ExpectedBodies ==
    {Nil,
     GoMap([k \in {} |-> Nil]),
     GoMap([k \in {"Hello"} |-> GoString("World")]),
     GoMap([k \in {"Hello"} |-> GoFunc])}

ObservedBodies ==
    {Nil, Empty, Garbage, Closed,
     Text(JObj(<<<<"Hello", JStr("World")>>>>)),
     Text(JObj(<<<<"olleH", JStr("dlroW")>>>>))}

Expectations ==
    [Status : {200, 400},
     Header : {h \in ExpectedHeaders : Keys(h) \subseteq {"Foo"}},
     Body : ExpectedBodies]

Observed ==
    [StatusCode : {200, 404},
     Header : {hh \in ObservedHeaders : DOMAIN hh \subseteq {"Foo"}},
     Body : ObservedBodies]

InitResponseCompare ==
    \/ \E r \in Expectations, x \in Observed :
          CallInit([fn |-> "Response.Compare", r |-> r, res |-> x])
    \/ \E r \in Expectations :
          CallInit([fn |-> "Response.Compare", r |-> r, res |-> Nil])

\* r.Compare(res)
CallResponseCompare ==
    /\ pc = "call"
    /\ args.fn = "Response.Compare"
    /\ \E order \in Orders(Keys(args.r.Header)) :
          out' = ResponseCompare(args.r, args.res, order)
    /\ pc' = "returned"
    /\ UNCHANGED <<hit, todo, m, i, body, req, res, err, reports, ran, args>>

SpecResponseCompare == InitResponseCompare /\ [][CallResponseCompare]_vars

\* the three checks of the call in args, each on its own
StatusCheck == CompareStatus(args.r, args.res.StatusCode)

HeaderCheck(order) ==
    IF args.r.Header = Nil THEN Nil
    ELSE HeaderCompare(args.r.Header, args.res.Header, order)

BodyCheck ==
    IF args.r.Body = Nil THEN Nil ELSE JSONBodyCompare(args.r.Body, args.res.Body)

\* C1: Response.Compare runs the status, header and body check whatever
\* the others found.  For every expectation and every response of the
\* transport it returns: nil exactly when none of the three checks fails,
\* and otherwise an error whose text is the text of the failed checks,
\* status first, then header, then body; the status check fails exactly
\* when the status codes differ.
C1_ChecksAreIndependent ==
    (pc = "returned" /\ args.res # Nil /\ args.res.Body # Nil) =>
        /\ out # Panic
        /\ \E order \in Orders(Keys(args.r.Header)) :
              LET st == StatusCheck
                  hd == HeaderCheck(order)
                  bd == BodyCheck
              IN  /\ st # Nil <=> args.r.Status # args.res.StatusCode
                  /\ out = Nil <=> (st = Nil /\ hd = Nil /\ bd = Nil)
                  /\ IsError(out) => out.msg = Message(st) \o Message(hd) \o Message(bd)

\* all three checks failed and the error holds their three lines in order
C1_Witness ==
    /\ pc = "returned"
    /\ IsError(out)
    /\ Len(out.msg) = 3
    /\ out.msg[1][1] = "StatusCode"
    /\ out.msg[2][1] = "Header"
    /\ out.msg[3][1] = "Body"

\* C9: an absent body expectation means the body is not checked.  With no
\* body expectation the body of the response (none, empty, JSON or not)
\* never makes Response.Compare panic and no line of its error is about
\* the body; a
\* status-only expectation yields nil against every response of the same
\* status and exactly the one status line against any other status.
C9_AbsentBodyIsNotChecked ==
    (pc = "returned" /\ args.r.Body = Nil /\ args.res # Nil) =>
        /\ out = Panic <=> HeaderComparePanics(args.r.Header)
        /\ IsError(out) =>
              \A n \in 1..Len(out.msg) : out.msg[n][1] \in {"StatusCode", "Header"}
        /\ args.r.Header = Nil =>
              IF args.res.StatusCode = args.r.Status
              THEN out = Nil
              ELSE out = Error(<<<<"StatusCode", args.res.StatusCode, args.r.Status>>>>)

\* a status-only expectation met a response of the same status whose body
\* is not JSON, and the result is nil
C9_Witness ==
    /\ pc = "returned"
    /\ args.res # Nil
    /\ args.r.Body = Nil
    /\ args.r.Header = Nil
    /\ args.res.Body = Garbage
    /\ args.res.Header # <<>>
    /\ out = Nil

\* the values of the direct calls of JSONBody.Compare
JSONKeys == {"Hello", "olleH"}

GoValues ==
    {GoString("World"), GoString("dlroW"), GoInt(1),
     GoSlice(<<GoInt(1), GoInt(2)>>), GoSlice(<<GoInt(2), GoInt(1)>>),
     GoMap([k \in {"Hello"} |-> GoString("World")]),
     GoFunc}

JSONValues ==
    {JStr("World"), JStr("dlroW"), JNum("1"), JNum("1.0"),
     JArr(<<JNum("1"), JNum("2")>>), JArr(<<JNum("2"), JNum("1")>>),
     JObj(<<<<"Hello", JStr("World")>>>>)}

\* the JSONBody expectations (non-nil maps)
JSONBodies == {GoMap(f) : f \in UNION {[S -> GoValues] : S \in SUBSET JSONKeys}}

\* observed objects: up to MaxMembers members in the order written, a key
\* may occur twice
ObservedObjects == {Text(JObj(ms)) : ms \in SeqsOf(JSONKeys \X JSONValues, 0, MaxMembers)}

ObservedStreams ==
    ObservedObjects \cup {Empty, Garbage, Closed, Text(JNull), Text(JArr(<<>>))}

InitJSONCompare ==
    \E b \in JSONBodies, r \in ObservedStreams :
        CallInit([fn |-> "JSONBody.Compare", b |-> b, r |-> r])

\* b.Compare(r)
CallJSONCompare ==
    /\ pc = "call"
    /\ args.fn = "JSONBody.Compare"
    /\ out' = JSONBodyCompare(args.b, args.r)
    /\ pc' = "returned"
    /\ UNCHANGED <<hit, todo, m, i, body, req, res, err, reports, ran, args>>

SpecJSONCompare == InitJSONCompare /\ [][CallJSONCompare]_vars

\* the structure a Go value of an expectation stands for: what a decoder
\* with UseNumber would make of its JSON
RECURSIVE Structure(_)
Structure(x) ==
    CASE x.t = "string" -> [t |-> "string", v |-> x.v]
      [] x.t = "int" -> [t |-> "json.Number", v |-> IntLit(x.v)]
      [] x.t = "slice" -> [t |-> "[]interface{}", v |-> [n \in 1..Len(x.v) |-> Structure(x.v[n])]]
      [] OTHER -> [t |-> "map[string]interface{}", v |-> [k \in DOMAIN x.v |-> Structure(x.v[k])]]

\* deep structural equality: maps key by key, sequences element by element
\* in order, scalars by kind and value
RECURSIVE StructEq(_, _)
StructEq(a, b) ==
    /\ a.t = b.t
    /\ CASE a.t = "map[string]interface{}" ->
               /\ DOMAIN a.v = DOMAIN b.v
               /\ \A k \in DOMAIN a.v : StructEq(a.v[k], b.v[k])
         [] a.t = "[]interface{}" ->
               /\ Len(a.v) = Len(b.v)
               /\ \A n \in 1..Len(a.v) : StructEq(a.v[n], b.v[n])
         [] OTHER -> a.v = b.v

\* C10: JSONBody.Compare decides deep structural equality.  For an
\* expectation of JSON values and a well-formed observed object it returns
\* nil exactly when the observed structure equals the structure of the
\* expectation (maps key by key whatever the order of the members,
\* sequences in order, scalars by value, a number by its text), and
\* otherwise the one Body line naming the observed and the expected
\* structure.
C10_DeepStructuralEquality ==
    (pc = "returned" /\ Encodable(args.b) /\ args.r \in ObservedObjects) =>
        LET got == Decoded(args.r.v)
            want == Structure(args.b)
        IN  IF StructEq(got, want)
            THEN out = Nil
            ELSE out = Error(<<<<"Body", got, want>>>>)

\* an expectation with both keys met the same members written in the
\* opposite order, one of them a nested value, and the result is nil
C10_Witness ==
    /\ pc = "returned"
    /\ DOMAIN args.b.v = JSONKeys
    /\ args.b.v["Hello"].t \in {"slice", "map"}
    /\ args.r \in ObservedObjects
    /\ Len(args.r.v.v) = 2
    /\ args.r.v.v[1][1] = "olleH"
    /\ args.r.v.v[2][1] = "Hello"
    /\ out = Nil

\* the observed streams the decoder fails on for another reason than their
\* end: text that is not JSON, a reader that cannot be read, a JSON value
\* that is no object
DecodeFaults == {Garbage, Closed, Text(JArr(<<>>))}

\* C11: in JSONBody.Compare the end of the stream is not an error.  An
\* empty observed body is the empty map and is compared by value: against
\* an expectation without keys the result is nil, against one with keys it
\* is the Body line naming the empty map and the expected structure.  Any
\* other decode error ends Compare with a decoding error, which is not a
\* Body line, whatever the expectation is; and a Body line or nil is never
\* the result for a stream the decoder fails on.
C11_EndOfStreamIsNotAnError ==
    pc = "returned" =>
        /\ (args.r = Empty /\ Encodable(args.b)) =>
               IF DOMAIN args.b.v = {}
               THEN out = Nil
               ELSE out = Error(<<<<"Body", EmptyMap, Structure(args.b)>>>>)
        /\ args.r \in DecodeFaults =>
               /\ IsError(out)
               /\ Len(out.msg) = 1
               /\ out.msg[1][1] = "hit: error decoding http.Response.Body"
        /\ (IsError(out) /\ out.msg[1][1] \in {"hit: error decoding http.Response.Body",
                                                "hit: error decoding hit.Response.Bodyer"})
               => args.r \in DecodeFaults

\* an empty observed body met the expectation JSONBody{} and the result is
\* nil
C11_Witness ==
    /\ pc = "returned"
    /\ args.fn = "JSONBody.Compare"
    /\ args.r = Empty
    /\ args.b = GoMap(<<>>)
    /\ out = Nil

(***************************************************************************)
(* Direct calls of Request.Execute, as TestRequestExecute makes them: a    *)
(* Hit with one method and one request, the request's header and body      *)
(* drawn in the initial state.                                             *)
(***************************************************************************)
RequestHeaders == {Nil} \cup {Map(f) : f \in HeadersOver({"Foo", "foo", "Content-Type"})}

RequestBodies ==
    {Nil,
     JSONBody(GoMap([k \in {"x"} |-> GoInt(1)])),
     FormBody([k \in {"A"} |-> <<"foo">>]),
     MultipartBody([k \in {"A"} |-> <<GoString("foo"), File("text/plain", "hit-test.txt", "Test")>>])}

ExecuteRequests ==
    [Header : RequestHeaders, Body : RequestBodies,
     Want : {[Status |-> 200, Header |-> Nil, Body |-> Nil]}]

InitExecute ==
    \E r \in ExecuteRequests :
        RunInit([Path |-> "/foo/bar", Requests |-> [mm \in {"GET"} |-> <<r>>]])

SpecExecute == InitExecute /\ [][Next]_vars

\* the values of the keys o[1], o[2], ... of f, one key after the other
RECURSIVE ValuesInOrder(_, _)
ValuesInOrder(f, o) ==
    IF o = <<>> THEN <<>> ELSE f[Head(o)] \o ValuesInOrder(f, Tail(o))

\* C8: every value of every key of the declared header is attached to the
\* outbound request, each key's values in their declared order and as often
\* as declared.  A field of the request holds the values of the declared
\* keys that name it (keys differing in case name one field), key after
\* key, after the Content-Type Execute sets from the body when there is a
\* body; the request has no other field and no other value.
C8_AllHeaderValuesAttached ==
    pc = "do" =>
        LET H == Cur.Header
            same(c) == {k \in Keys(H) : Fold(k) = Fold(c)}
            set(c) == IF c = "Content-Type" /\ Cur.Body # Nil
                      THEN <<Type(Cur.Body)>> ELSE <<>>
        IN  /\ \A k \in Keys(H) :
                  H.v[k] # <<>> => \E c \in DOMAIN req.Header : Fold(c) = Fold(k)
            /\ Cur.Body # Nil => "Content-Type" \in DOMAIN req.Header
            /\ \A c \in DOMAIN req.Header :
                  \E o \in Orders(same(c)) :
                      req.Header[c] = set(c) \o ValuesInOrder(H.v, o)

\* a request with a body whose header declares two values for each of Foo,
\* foo and Content-Type: four values of Foo and three of Content-Type are
\* on the request
C8_Witness ==
    /\ pc = "do"
    /\ Cur.Body # Nil
    /\ Keys(Cur.Header) = {"Foo", "foo", "Content-Type"}
    /\ \A k \in Keys(Cur.Header) :
          Len(Cur.Header.v[k]) = 2 /\ Cur.Header.v[k][1] # Cur.Header.v[k][2]
    /\ Len(req.Header["Foo"]) = 4
    /\ Len(req.Header["Content-Type"]) = 3

(***************************************************************************)
(* Direct calls of Bodyer.Body, as TestBodyer makes them: a payload drawn   *)
(* in the initial state is encoded, and encoded once more.                 *)
(***************************************************************************)
FieldNames == {"A", "B"}

FormValues == {"foo", "bar"}

PartValues == {GoString("foo"), File("text/plain", "hit-test.txt", "Test"), GoInt(1)}

\* the maps from some of the field names to up to MaxVals of the values V
FieldsOver(V) == UNION {[S -> SeqsOf(V, 0, MaxVals)] : S \in SUBSET FieldNames}

Payloads ==
    {JSONBody(b) : b \in JSONBodies}
        \cup {FormBody(f) : f \in FieldsOver(FormValues)}
        \cup {MultipartBody(f) : f \in FieldsOver(PartValues)}

InitBody == \E b \in Payloads : CallInit([fn |-> "Bodyer.Body", b |-> b])

\* b.Body(), the first time
CallBody ==
    /\ pc = "call"
    /\ args.fn = "Bodyer.Body"
    /\ \E order \in Orders(RangedKeys(args.b)) : body' = BodyerBody(args.b, order)
    /\ pc' = "encoded"
    /\ UNCHANGED <<hit, todo, m, i, req, res, err, reports, ran, args, out>>

\* b.Body() of the same payload, once more
CallBodyAgain ==
    /\ pc = "encoded"
    /\ \E order \in Orders(RangedKeys(args.b)) : out' = BodyerBody(args.b, order)
    /\ pc' = "returned"
    /\ UNCHANGED <<hit, todo, m, i, body, req, res, err, reports, ran, args>>

NextBody == CallBody \/ CallBodyAgain

SpecBody == InitBody /\ [][NextBody]_vars

\* C12: the encoding of a body is deterministic.  Encoding the same JSON,
\* form or multipart payload twice gives the same result, the same stream
\* or the same error, also for a multipart payload with two or more field
\* names.
C12_EncodingIsDeterministic ==
    pc = "returned" => out = body

\* a form payload with two keys has been encoded twice into the same
\* stream, the pairs of "A" before those of "B"
C12_Witness ==
    /\ pc = "returned"
    /\ args.fn = "Bodyer.Body"
    /\ args.b.t = "FormBody"
    /\ DOMAIN args.b.v = {"A", "B"}
    /\ Len(args.b.v["A"]) = 1 /\ Len(args.b.v["B"]) = 2
    /\ out = body
    /\ out.r.v[1][1] = "A"
    /\ out.r.v[2][1] = "B"

====
